---- MODULE Spec2Model ----
(***************************************************************************)
(* Model of src/main.py: Block, Blockchain and the concurrent mining race  *)
(* of Blockchain.concurrent_mining.                                        *)
(*                                                                         *)
(* Strings are sequences of character codes.  Codes 0..9 are the decimal   *)
(* digits (and the low hex digits); codes >= 10 are the characters of the  *)
(* opaque data payloads.                                                   *)
(***************************************************************************)
EXTENDS Integers, Sequences, FiniteSets, TLC

\* ---------------------------------------------------------------- bounds
MaxThreads == 2        \* largest num_threads passed to concurrent_mining
MaxDifficulty == 1     \* largest difficulty passed to Blockchain(...)
MaxNonce == 1          \* cap of the nonce counter of mine_block
MaxChain == 3          \* cap of len(chain)
HexBase == 2           \* number of distinct digits of a digest character
MaxVChain == 3         \* cap of the length of a sequence given to validation
MaxTamper == 1         \* cap of the number of field assignments to its blocks

Workers == 1..MaxThreads
\* readings of time.time(), counted from the construction of the chain; the
\* timestamp takes part in no decision of the code
Times == {0}
GenesisData == 10      \* the payload "GenesisBlock"
Payloads == {11, 12}   \* payloads supplied by the caller of concurrent_mining

\* ------------------------------------------------------- Block and hashing
RECURSIVE Str(_)
\* str(n) of a non-negative integer: its decimal digits
Str(n) == IF n < 10 THEN <<n>> ELSE Str(n \div 10) \o <<n % 10>>

RECURSIVE SumSeq(_)
SumSeq(s) == IF s = <<>> THEN 0 ELSE s[1] + SumSeq(Tail(s))

RECURSIVE Pow(_, _)
Pow(b, k) == IF k = 0 THEN 1 ELSE b * Pow(b, k - 1)

\* hashlib.sha256(value).hexdigest(): a deterministic, collision-free digest.
\* Its leading characters, as many as the largest difficulty asks for, are
\* digits that vary with the content of value.
Sha256Hex(value) ==
    [k \in 1..MaxDifficulty |->
        (SumSeq(value) \div Pow(HexBase, k - 1)) % HexBase] \o value

\* calculate_hash leaving the nonce out of the hashed value
calculate_hash_NoNonce(b) ==
    Sha256Hex(Str(b.index) \o b.previous_hash \o Str(b.timestamp)
                \o <<b.data>>)

\* Block.calculate_hash: the digest of the five fields concatenated in order
calculate_hash(b) ==
    Sha256Hex(Str(b.index) \o b.previous_hash \o Str(b.timestamp)
                \o <<b.data>> \o Str(b.nonce))

\* Block.__init__
Block(index, previous_hash, timestamp, data, nonce) ==
    LET b == [index |-> index, previous_hash |-> previous_hash,
              timestamp |-> timestamp, data |-> data, nonce |-> nonce,
              hash |-> <<>>]
    IN  [b EXCEPT !.hash = calculate_hash(b)]

\* a prefix one character too long
Prefix_OneMore(d) == [k \in 1..(d + 1) |-> 0]

\* "0" * difficulty
Prefix(d) == [k \in 1..d |-> 0]

\* str.startswith
StartsWith(h, p) == Len(h) >= Len(p) /\ SubSeq(h, 1, Len(p)) = p

\* Blockchain.create_genesis_block
create_genesis_block(now) == Block(0, <<0>>, now, GenesisData, 0)

\* Blockchain.get_latest_block
get_latest_block(c) == c[Len(c)]

\* ------------------------------------------------------------- validation
RECURSIVE ValidateFrom_LinkFirst(_, _)
\* the loop with its two checks in the other order
ValidateFrom_LinkFirst(c, i) ==
    IF i > Len(c) THEN [ok |-> TRUE, index |-> 0, inv |-> 0]
    ELSE IF c[i].previous_hash # c[i - 1].hash
         THEN [ok |-> FALSE, index |-> i - 1, inv |-> 2]
    ELSE IF c[i].hash # calculate_hash(c[i])
         THEN [ok |-> FALSE, index |-> i - 1, inv |-> 1]
    ELSE ValidateFrom_LinkFirst(c, i + 1)

RECURSIVE ValidateFrom(_, _)
\* the loop of Blockchain._validate_chain from list position i (1-based);
\* the result carries the Python index and the check that printed the failure
ValidateFrom(c, i) ==
    IF i > Len(c) THEN [ok |-> TRUE, index |-> 0, inv |-> 0]
    ELSE IF c[i].hash # calculate_hash(c[i])
         THEN [ok |-> FALSE, index |-> i - 1, inv |-> 1]
    ELSE IF c[i].previous_hash # c[i - 1].hash
         THEN [ok |-> FALSE, index |-> i - 1, inv |-> 2]
    ELSE ValidateFrom(c, i + 1)

\* range(1, len(chain) - 1): the last block is never looked at
validate_chain_SkipsLast(c) ==
    IF Len(c) = 0 THEN ValidateFrom(c, 2)
    ELSE ValidateFrom(SubSeq(c, 1, Len(c) - 1), 2)

\* Blockchain._validate_chain: range(1, len(chain))
validate_chain(c) == ValidateFrom(c, 2)

\* -------------------------------------------------------------------- state
VARIABLES
    chain,          \* Blockchain.chain
    difficulty,     \* Blockchain.difficulty
    clock,          \* last value returned by time.time()
    opc,            \* position of the thread running concurrent_mining
    num_threads,    \* argument of the current call
    block_template, \* local block_template
    stop_event,     \* local stop_event (threading.Event)
    result,         \* local result["block"]: <<>> is None
    result_lock,    \* holder of result_lock, 0 when free
    started,        \* number of threads started by the for loop
    outcome,        \* what the last call printed: "appended" or "none"
    lenBefore,      \* len(chain) when the current call began
    pc,             \* position of each worker thread in mine()
    block_copy,     \* each worker's block_copy
    attempts,       \* hash attempts of each worker in its current mine_block
    iterations,     \* bodies of the outer loop of mine() run by each worker
    found,          \* the worker's mine_block returned through the prefix test
    arb,            \* what the worker's last arbitration did
    stopSetBy,      \* how stop_event was set: workers by "found" / "commit"
    writes,         \* number of writes of result["block"] in this call
    vchain,         \* a block sequence given to _validate_chain
    verdict,        \* what _validate_chain returned for vchain
    tam             \* the modifications made to vchain without resealing

vars == <<chain, difficulty, clock, opc, num_threads, block_template,
          stop_event, result, result_lock, started, outcome, lenBefore,
          pc, block_copy, attempts, iterations, found, arb, stopSetBy,
          writes, vchain, verdict, tam>>

chainVars == <<chain, difficulty, clock>>
callVars == <<opc, num_threads, block_template, stop_event, result,
              result_lock, started, outcome, lenBefore, stopSetBy, writes>>
workerVars == <<pc, block_copy, attempts, iterations, found, arb>>
vVars == <<vchain, verdict, tam>>

None == <<>>
NoBlock == [index |-> 0, previous_hash |-> <<>>, timestamp |-> 0,
            data |-> 0, nonce |-> 0, hash |-> <<>>]
NoVerdict == [ok |-> TRUE, index |-> -1, inv |-> -1]
NoTamper == [n |-> 0, index |-> 0, field |-> "none", wasValid |-> FALSE]

\* Blockchain.__init__(difficulty), before any call
Init ==
    /\ \E d \in -1..MaxDifficulty :
         /\ difficulty = d
         /\ clock = 0
         /\ chain = <<create_genesis_block(0)>>
    /\ opc = "idle"
    /\ num_threads = 0
    /\ block_template = NoBlock
    /\ stop_event = FALSE
    /\ result = None
    /\ result_lock = 0
    /\ started = 0
    /\ outcome = "new"
    /\ lenBefore = 1
    /\ pc = [w \in Workers |-> "unstarted"]
    /\ block_copy = [w \in Workers |-> NoBlock]
    /\ attempts = [w \in Workers |-> 0]
    /\ iterations = [w \in Workers |-> 0]
    /\ found = [w \in Workers |-> FALSE]
    /\ arb = [w \in Workers |-> "none"]
    /\ stopSetBy = {}
    /\ writes = 0
    /\ vchain = <<>>
    /\ verdict = NoVerdict
    /\ tam = NoTamper

\* ------------------------------------------------- concurrent_mining, caller
\* lines 139-156 and 198: read the tip, build the template, create the
\* event, the result slot and the lock
ConcurrentMining(data, n, now) ==
    /\ opc = "idle"
    /\ Len(chain) < MaxChain
    /\ block_template' = Block(get_latest_block(chain).index + 1,
                               get_latest_block(chain).hash, now, data, 0)
    /\ clock' = now
    /\ num_threads' = n
    /\ stop_event' = FALSE
    /\ result' = None
    /\ result_lock' = 0
    /\ started' = 0
    /\ outcome' = "running"
    /\ lenBefore' = Len(chain)
    /\ stopSetBy' = {}
    /\ writes' = 0
    /\ opc' = "spawn"
    /\ pc' = [w \in Workers |-> "unstarted"]
    /\ block_copy' = [w \in Workers |-> NoBlock]
    /\ attempts' = [w \in Workers |-> 0]
    /\ iterations' = [w \in Workers |-> 0]
    /\ found' = [w \in Workers |-> FALSE]
    /\ arb' = [w \in Workers |-> "none"]
    /\ UNCHANGED <<chain, difficulty, vVars>>

\* lines 199-202: one pass of the for loop, t.start()
StartThread ==
    /\ opc = "spawn"
    /\ started < num_threads
    /\ started' = started + 1
    /\ pc' = [pc EXCEPT ![started + 1] = "outer"]
    /\ UNCHANGED <<chainVars, opc, num_threads, block_template, stop_event,
                   result, result_lock, outcome, lenBefore, stopSetBy, writes,
                   block_copy, attempts, iterations, found, arb, vVars>>

\* line 199: range(num_threads) is exhausted
EndSpawn ==
    /\ opc = "spawn"
    /\ started >= num_threads
    /\ opc' = "join"
    /\ UNCHANGED <<chainVars, num_threads, block_template, stop_event, result,
                   result_lock, started, outcome, lenBefore, stopSetBy, writes,
                   workerVars, vVars>>

\* a join of the first thread only
Join_FirstOnly ==
    /\ opc = "join"
    /\ \A w \in 1..started : w = 1 => pc[w] = "done"
    /\ opc' = "finish"
    /\ UNCHANGED <<chainVars, num_threads, block_template, stop_event, result,
                   result_lock, started, outcome, lenBefore, stopSetBy, writes,
                   workerVars, vVars>>

\* lines 205-206: t.join() for every started thread
Join ==
    /\ opc = "join"
    /\ \A w \in 1..started : pc[w] = "done"
    /\ opc' = "finish"
    /\ UNCHANGED <<chainVars, num_threads, block_template, stop_event, result,
                   result_lock, started, outcome, lenBefore, stopSetBy, writes,
                   workerVars, vVars>>

\* an append that does not depend on the slot: the template goes in when
\* no block was mined
Finish_AppendsAnyway ==
    /\ opc = "finish"
    /\ IF result # None
       THEN /\ chain' = Append(chain, result[1].block)
            /\ outcome' = "appended"
       ELSE /\ chain' = Append(chain, block_template)
            /\ outcome' = "none"
    /\ opc' = "idle"
    /\ UNCHANGED <<difficulty, clock, num_threads, block_template, stop_event,
                   result, result_lock, started, lenBefore, stopSetBy, writes,
                   workerVars, vVars>>

\* lines 210-217: append the mined block or report that there is none
Finish ==
    /\ opc = "finish"
    /\ IF result # None
       THEN /\ chain' = Append(chain, result[1].block)
            /\ outcome' = "appended"
       ELSE /\ chain' = chain
            /\ outcome' = "none"
    /\ opc' = "idle"
    /\ UNCHANGED <<difficulty, clock, num_threads, block_template, stop_event,
                   result, result_lock, started, lenBefore, stopSetBy, writes,
                   workerVars, vVars>>

\* ------------------------------------------------------- mine(), each worker
\* line 165 and lines 167-173: test the event; build this pass's block_copy
OuterCheck(w) ==
    /\ pc[w] = "outer"
    /\ IF stop_event
       THEN /\ pc' = [pc EXCEPT ![w] = "done"]
            /\ UNCHANGED <<block_copy, attempts, iterations, found>>
       ELSE /\ block_copy' = [block_copy EXCEPT ![w] =
                    Block(block_template.index, block_template.previous_hash,
                          block_template.timestamp, block_template.data, 0)]
            /\ attempts' = [attempts EXCEPT ![w] = 0]
            /\ iterations' = [iterations EXCEPT ![w] = @ + 1]
            /\ found' = [found EXCEPT ![w] = FALSE]
            /\ pc' = [pc EXCEPT ![w] = "inner"]
    /\ UNCHANGED <<chainVars, callVars, arb, vVars>>

\* a loop that does not test the event: while True
InnerCheck_NoTest(w) ==
    /\ pc[w] = "inner"
    /\ block_copy[w].nonce <= MaxNonce
    /\ pc' = [pc EXCEPT ![w] = "attempt"]
    /\ UNCHANGED <<chainVars, callVars, block_copy, attempts, iterations,
                   found, arb, vVars>>

\* line 63: the loop test of mine_block; leaving the loop returns to mine()
InnerCheck(w) ==
    /\ pc[w] = "inner"
    /\ IF stop_event
       THEN pc' = [pc EXCEPT ![w] = "lock"]
       ELSE /\ block_copy[w].nonce <= MaxNonce
            /\ pc' = [pc EXCEPT ![w] = "attempt"]
    /\ UNCHANGED <<chainVars, callVars, block_copy, attempts, iterations,
                                     found, arb, vVars>>

\* stop_event.set() and the return outside the if: they follow every attempt
Attempt_AlwaysStops(w) ==
    /\ pc[w] = "attempt"
    /\ LET h == calculate_hash(block_copy[w])
       IN  /\ attempts' = [attempts EXCEPT ![w] = @ + 1]
           /\ block_copy' = [block_copy EXCEPT ![w].hash = h]
           /\ found' = [found EXCEPT ![w] = StartsWith(h, Prefix(difficulty))]
           /\ pc' = [pc EXCEPT ![w] = "setstop"]
    /\ UNCHANGED <<chainVars, callVars, iterations, arb, vVars>>

\* a return after a failed attempt instead of the next pass of the loop
Attempt_ReturnsOnFailure(w) ==
    /\ pc[w] = "attempt"
    /\ LET h == calculate_hash(block_copy[w])
       IN  /\ attempts' = [attempts EXCEPT ![w] = @ + 1]
           /\ IF StartsWith(h, Prefix(difficulty))
              THEN /\ block_copy' = [block_copy EXCEPT ![w].hash = h]
                   /\ found' = [found EXCEPT ![w] = TRUE]
                   /\ pc' = [pc EXCEPT ![w] = "setstop"]
              ELSE /\ block_copy' = [block_copy EXCEPT ![w].hash = h,
                                                       ![w].nonce = @ + 1]
                   /\ found' = found
                   /\ pc' = [pc EXCEPT ![w] = "lock"]
    /\ UNCHANGED <<chainVars, callVars, iterations, arb, vVars>>

\* the nonce incremented before the prefix test instead of after it
Attempt_IncrementsFirst(w) ==
    /\ pc[w] = "attempt"
    /\ LET h == calculate_hash(block_copy[w])
       IN  /\ attempts' = [attempts EXCEPT ![w] = @ + 1]
           /\ block_copy' = [block_copy EXCEPT ![w].hash = h,
                                                ![w].nonce = @ + 1]
           /\ IF StartsWith(h, Prefix(difficulty))
              THEN /\ found' = [found EXCEPT ![w] = TRUE]
                   /\ pc' = [pc EXCEPT ![w] = "setstop"]
              ELSE /\ found' = found
                   /\ pc' = [pc EXCEPT ![w] = "inner"]
    /\ UNCHANGED <<chainVars, callVars, iterations, arb, vVars>>

\* lines 64-65 and 71: reseal, test the prefix, otherwise increment the nonce
Attempt(w) ==
    /\ pc[w] = "attempt"
    /\ LET h == calculate_hash(block_copy[w])
       IN  /\ attempts' = [attempts EXCEPT ![w] = @ + 1]
           /\ IF StartsWith(h, Prefix(difficulty))
              THEN /\ block_copy' = [block_copy EXCEPT ![w].hash = h]
                   /\ found' = [found EXCEPT ![w] = TRUE]
                   /\ pc' = [pc EXCEPT ![w] = "setstop"]
              ELSE /\ block_copy' = [block_copy EXCEPT ![w].hash = h,
                                                       ![w].nonce = @ + 1]
                   /\ found' = found
                   /\ pc' = [pc EXCEPT ![w] = "inner"]
    /\ UNCHANGED <<chainVars, callVars, iterations, arb, vVars>>

\* lines 66-70: stop_event.set() of mine_block, then return
SetStop(w) ==
    /\ pc[w] = "setstop"
    /\ stop_event' = TRUE
    /\ stopSetBy' = stopSetBy \cup {<<w, "found">>}
    /\ pc' = [pc EXCEPT ![w] = "lock"]
    /\ UNCHANGED <<chainVars, opc, num_threads, block_template, result,
                   result_lock, started, outcome, lenBefore, writes,
                   block_copy, attempts, iterations, found, arb, vVars>>

\* entering the section without waiting for the lock
Acquire_NoWait(w) ==
    /\ pc[w] = "lock"
    /\ result_lock' = w
    /\ pc' = [pc EXCEPT ![w] = "check"]
    /\ UNCHANGED <<chainVars, opc, num_threads, block_template, stop_event,
                   result, started, outcome, lenBefore, stopSetBy, writes,
                   block_copy, attempts, iterations, found, arb, vVars>>

\* line 179: with result_lock, acquire
Acquire(w) ==
    /\ pc[w] = "lock"
    /\ result_lock = 0
    /\ result_lock' = w
    /\ pc' = [pc EXCEPT ![w] = "check"]
    /\ UNCHANGED <<chainVars, opc, num_threads, block_template, stop_event,
                   result, started, outcome, lenBefore, stopSetBy, writes,
                   block_copy, attempts, iterations, found, arb, vVars>>

\* arbitration without the test of the slot
CheckSlot_NoTest(w) ==
    /\ pc[w] = "check"
    /\ pc' = [pc EXCEPT ![w] = "validate"]
    /\ arb' = arb
    /\ UNCHANGED <<chainVars, callVars, block_copy, attempts, iterations,
                                     found, vVars>>

\* line 180: if result["block"] is None
CheckSlot(w) ==
    /\ pc[w] = "check"
    /\ IF result = None
       THEN /\ pc' = [pc EXCEPT ![w] = "validate"]
            /\ arb' = arb
       ELSE /\ pc' = [pc EXCEPT ![w] = "unlock"]
            /\ arb' = [arb EXCEPT ![w] = "slot_full"]
    /\ UNCHANGED <<chainVars, callVars, block_copy, attempts, iterations,
                                     found, vVars>>

\* arbitration that accepts the block without validating it
Validate_NoValidation(w) ==
    /\ pc[w] = "validate"
    /\ pc' = [pc EXCEPT ![w] = "write"]
    /\ arb' = arb
    /\ UNCHANGED <<chainVars, callVars, block_copy, attempts, iterations,
                                     found, vVars>>

\* lines 182-183 and 190-194: validate self.chain + [block_copy]
Validate(w) ==
    /\ pc[w] = "validate"
    /\ IF validate_chain(chain \o <<block_copy[w]>>).ok
       THEN /\ pc' = [pc EXCEPT ![w] = "write"]
            /\ arb' = arb
       ELSE /\ pc' = [pc EXCEPT ![w] = "unlock"]
            /\ arb' = [arb EXCEPT ![w] = "invalid"]
    /\ UNCHANGED <<chainVars, callVars, block_copy, attempts, iterations,
                                     found, vVars>>

\* the with block ending after the write of the slot, before line 189
WriteSlot_ReleasesLock(w) ==
    /\ pc[w] = "write"
    /\ result' = <<[by |-> w, block |-> block_copy[w]]>>
    /\ writes' = writes + 1
    /\ arb' = [arb EXCEPT ![w] = "committed"]
    /\ result_lock' = 0
    /\ pc' = [pc EXCEPT ![w] = "commitstop"]
    /\ UNCHANGED <<chainVars, opc, num_threads, block_template, stop_event,
                   started, outcome, lenBefore, stopSetBy,
                   block_copy, attempts, iterations, found, vVars>>

\* the winning worker appending its block to self.chain itself
WriteSlot_Appends(w) ==
    /\ pc[w] = "write"
    /\ result' = <<[by |-> w, block |-> block_copy[w]]>>
    /\ writes' = writes + 1
    /\ arb' = [arb EXCEPT ![w] = "committed"]
    /\ chain' = Append(chain, block_copy[w])
    /\ pc' = [pc EXCEPT ![w] = "commitstop"]
    /\ UNCHANGED <<difficulty, clock, opc, num_threads, block_template,
                   stop_event, result_lock, started, outcome, lenBefore,
                   stopSetBy, block_copy, attempts, iterations, found,
                   vVars>>

\* line 185: result["block"] = block_copy
WriteSlot(w) ==
    /\ pc[w] = "write"
    /\ result' = <<[by |-> w, block |-> block_copy[w]]>>
    /\ writes' = writes + 1
    /\ arb' = [arb EXCEPT ![w] = "committed"]
    /\ pc' = [pc EXCEPT ![w] = "commitstop"]
    /\ UNCHANGED <<chainVars, opc, num_threads, block_template, stop_event,
                   result_lock, started, outcome, lenBefore, stopSetBy,
                   block_copy, attempts, iterations, found, vVars>>

\* line 189: stop_event.set() of the committing worker
CommitStop(w) ==
    /\ pc[w] = "commitstop"
    /\ stop_event' = TRUE
    /\ stopSetBy' = stopSetBy \cup {<<w, "commit">>}
    /\ pc' = [pc EXCEPT ![w] = "unlock"]
    /\ UNCHANGED <<chainVars, opc, num_threads, block_template, result,
                   result_lock, started, outcome, lenBefore, writes,
                   block_copy, attempts, iterations, found, arb, vVars>>

\* leaving the section without releasing result_lock
Release_KeepsLock(w) ==
    /\ pc[w] = "unlock"
    /\ result_lock' = result_lock
    /\ pc' = [pc EXCEPT ![w] = "outer"]
    /\ UNCHANGED <<chainVars, opc, num_threads, block_template, stop_event,
                   result, started, outcome, lenBefore, stopSetBy, writes,
                   block_copy, attempts, iterations, found, arb, vVars>>

\* end of the with block: release result_lock, back to the outer loop test
Release(w) ==
    /\ pc[w] = "unlock"
    /\ result_lock' = 0
    /\ pc' = [pc EXCEPT ![w] = "outer"]
    /\ UNCHANGED <<chainVars, opc, num_threads, block_template, stop_event,
                   result, started, outcome, lenBefore, stopSetBy, writes,
                   block_copy, attempts, iterations, found, arb, vVars>>

WorkerStep(w) ==
    \/ OuterCheck(w)
    \/ InnerCheck(w)
    \/ Attempt(w)
    \/ SetStop(w)
    \/ Acquire(w)
    \/ CheckSlot(w)
    \/ Validate(w)
    \/ WriteSlot(w)
    \/ CommitStop(w)
    \/ Release(w)

Call ==
    \E data \in Payloads, n \in -1..MaxThreads, now \in Times :
        now >= clock /\ ConcurrentMining(data, n, now)

Next ==
    \/ Call
    \/ StartThread
    \/ EndSpawn
    \/ Join
    \/ Finish
    \/ \E w \in Workers : WorkerStep(w)

Spec == Init /\ [][Next]_vars

\* a step of the call in progress: of the caller or of one of its threads
Progress ==
    \/ StartThread
    \/ EndSpawn
    \/ Join
    \/ Finish
    \/ \E w \in Workers : WorkerStep(w)

\* the scheduler does not stop: while some thread of the call can run, one
\* of them eventually does; a new call is up to the caller.  Fair scheduling
\* of every single thread implies this.
Fairness == WF_vars(Progress)

LiveSpec == Spec /\ Fairness

\* Blockchain(0): the chains of difficulty 0, fairly scheduled
InitZero == Init /\ difficulty = 0

LiveSpecZero == InitZero /\ [][Next]_vars /\ Fairness

\* one call of concurrent_mining on a fresh chain, any difficulty, fairly
\* scheduled
RaceNext == (opc = "idle" => outcome = "new") /\ Next

LiveSpecRace == Init /\ [][RaceNext]_vars /\ Fairness

\* ------------------------------------------- validation as a pure function
\* The sequences given to _validate_chain: built with the Block constructor
\* and then changed by plain field assignments.

\* values an assignment can store in a field
FieldValues(f) ==
    CASE f = "index" -> 0..1
      [] f = "timestamp" -> 0..1
      [] f = "nonce" -> 0..1
      [] f = "data" -> Payloads \cup {GenesisData}
      [] f = "previous_hash" -> {<<0>>, <<1>>}
      [] f = "hash" -> {<<0>>, <<1>>}

HashedFields == {"index", "previous_hash", "timestamp", "data", "nonce"}
Fields == HashedFields \cup {"hash"}

\* block.<f> = v, nothing else
Assign(b, f, v) ==
    CASE f = "index" -> [b EXCEPT !.index = v]
      [] f = "timestamp" -> [b EXCEPT !.timestamp = v]
      [] f = "nonce" -> [b EXCEPT !.nonce = v]
      [] f = "data" -> [b EXCEPT !.data = v]
      [] f = "previous_hash" -> [b EXCEPT !.previous_hash = v]
      [] f = "hash" -> [b EXCEPT !.hash = v]

FieldOf(b, f) ==
    CASE f = "index" -> b.index
      [] f = "timestamp" -> b.timestamp
      [] f = "nonce" -> b.nonce
      [] f = "data" -> b.data
      [] f = "previous_hash" -> b.previous_hash
      [] f = "hash" -> b.hash

VInit ==
    /\ Init
    /\ difficulty = 0
    /\ clock = 0

\* Blockchain.__init__: a fresh chain holds the genesis block only
VCreate ==
    /\ vchain' = <<create_genesis_block(0)>>
    /\ verdict' = NoVerdict
    /\ tam' = NoTamper
    /\ UNCHANGED <<chainVars, callVars, workerVars>>

\* a further block built by the Block constructor, linked to the last block
\* or not
VAppend(data, linked) ==
    /\ vchain # <<>>
    /\ Len(vchain) < MaxVChain
    /\ vchain' = Append(vchain,
                    Block(Len(vchain),
                          IF linked THEN get_latest_block(vchain).hash
                                    ELSE <<0>>,
                          0, data, 0))
    /\ verdict' = NoVerdict
    /\ tam' = tam
    /\ UNCHANGED <<chainVars, callVars, workerVars>>

\* an assignment to one field of the block at Python index i, without
\* recomputing its hash
VTamper(i, f, v) ==
    /\ i + 1 \in 1..Len(vchain)
    /\ tam.n < MaxTamper
    /\ v # FieldOf(vchain[i + 1], f)
    /\ vchain' = [vchain EXCEPT ![i + 1] = Assign(@, f, v)]
    /\ tam' = [n |-> tam.n + 1, index |-> i, field |-> f,
               wasValid |-> tam.n = 0 /\ validate_chain(vchain).ok]
    /\ verdict' = NoVerdict
    /\ UNCHANGED <<chainVars, callVars, workerVars>>

\* line 64: block.hash = block.calculate_hash()
VReseal(i) ==
    /\ i + 1 \in 1..Len(vchain)
    /\ vchain[i + 1].hash # calculate_hash(vchain[i + 1])
    /\ vchain' = [vchain EXCEPT ![i + 1].hash = calculate_hash(vchain[i + 1])]
    /\ tam' = [n |-> tam.n + 1, index |-> i, field |-> "reseal",
               wasValid |-> FALSE]
    /\ verdict' = NoVerdict
    /\ UNCHANGED <<chainVars, callVars, workerVars>>

\* Blockchain._validate_chain(vchain)
VValidate ==
    /\ verdict = NoVerdict
    /\ verdict' = validate_chain(vchain)
    /\ UNCHANGED <<chainVars, callVars, workerVars, vchain, tam>>

VNext ==
    \/ VCreate
    \/ \E data \in Payloads, linked \in BOOLEAN : VAppend(data, linked)
    \/ \E i \in 0..(MaxVChain - 1), f \in Fields :
           \E v \in FieldValues(f) : VTamper(i, f, v)
    \/ \E i \in 0..(MaxVChain - 1) : VReseal(i)
    \/ VValidate

SpecV == VInit /\ [][VNext]_vars

\* ------------------------------------------------------------- properties
Returned == opc = "idle" /\ outcome # "new"
Rejected(w) == arb[w] \in {"slot_full", "invalid"}
Satisfies(b) == StartsWith(b.hash, Prefix(difficulty))
Tampered(fs) ==
    /\ verdict # NoVerdict
    /\ tam.n = 1
    /\ tam.wasValid
    /\ tam.index >= 1
    /\ tam.field \in fs

\* C1: within one call the result slot, once written, never changes, it is
\* written at most once, and the chain is never longer than it was when the
\* call began plus one.
C1_AtMostOneWinner ==
    /\ [][(result # None /\ opc # "idle") => result' = result]_vars
    /\ [](writes <= 1 /\ Len(chain) <= lenBefore + 1)

\* two workers each found a satisfying hash and the call appended one block
C1_Witness ==
    /\ Returned
    /\ outcome = "appended"
    /\ found[1] /\ found[2]
    /\ Len(chain) = lenBefore + 1

\* C2: a block written to the result slot has a hash that starts with
\* `difficulty` zero characters.
C2_ProofValidity ==
    result # None => Satisfies(result[1].block)

\* C3: right after a call that appended a block, validating the whole chain
\* returns true.
C3_ChainIntegrity ==
    (Returned /\ outcome = "appended") => validate_chain(chain).ok

\* a block was appended in a race in which a worker's block failed the
\* speculative validation
C3_Witness ==
    /\ Returned
    /\ outcome = "appended"
    /\ Len(chain) = 3
    /\ validate_chain(chain).ok
    /\ \E w \in Workers : arb[w] = "invalid"

\* C4: a call with num_threads >= 1 on a chain that validates: once all
\* workers have terminated exactly one block was committed, and the call
\* appends it and never reports that no block was mined.
C4_ExactlyOneCommit ==
    (/\ opc \in {"finish", "idle"}
     /\ outcome # "new"
     /\ num_threads >= 1
     /\ validate_chain(SubSeq(chain, 1, lenBefore)).ok)
    => /\ writes = 1
       /\ result # None
       /\ opc = "idle" => outcome = "appended" /\ Len(chain) = lenBefore + 1

\* a race of two workers ended with one appended and the other turned away
\* at the filled slot
C4_Witness ==
    /\ Returned
    /\ num_threads = 2
    /\ outcome = "appended"
    /\ \E w \in Workers : arb[w] = "slot_full" /\ found[w]

\* C5: with difficulty 0 no worker makes more than one hash attempt, a call
\* with num_threads >= 1 that returned has appended a block, and every
\* started call runs until all its workers are done and it has returned.
C5_DifficultyZero ==
    /\ [](difficulty = 0 =>
            /\ \A w \in Workers : attempts[w] <= 1
            /\ (Returned /\ num_threads >= 1) =>
                   (outcome = "appended" /\ Len(chain) = lenBefore + 1))
    /\ (difficulty = 0 /\ opc = "spawn")
          ~> (opc = "idle" /\ \A w \in Workers :
                                 w <= num_threads => pc[w] = "done")

\* difficulty 0: one worker won with its first attempt, the other was
\* cancelled before any attempt
C5_Witness ==
    /\ difficulty = 0
    /\ Returned
    /\ outcome = "appended"
    /\ num_threads = 2
    /\ \E w, v \in Workers : attempts[w] = 1 /\ attempts[v] = 0 /\ pc[v] = "done"

C7_TamperDetection ==
    Tampered(Fields) =>
        verdict = [ok |-> FALSE, index |-> tam.index, inv |-> 1]

\* the nonce of the block at index 1 of a three-block chain was changed and
\* validation ran
C7_Witness ==
    /\ Tampered({"nonce"})
    /\ tam.index = 1
    /\ Len(vchain) = 3
    /\ ~verdict.ok

\* C8 as stated: after an assignment to previous_hash of a non-genesis block
\* validation fails at that index through the linkage check.
C8_LinkageCheckReports ==
    Tampered({"previous_hash"}) =>
        verdict = [ok |-> FALSE, index |-> tam.index, inv |-> 2]

\* C8 amended: after an assignment to previous_hash of a non-genesis block
\* validation fails at that index through the self-consistency check; the
\* linkage condition is broken there as well, and the blocks before it pass
\* both checks.
C8_LinkageDetection ==
    Tampered({"previous_hash"}) =>
        /\ verdict = [ok |-> FALSE, index |-> tam.index, inv |-> 1]
        /\ vchain[tam.index + 1].previous_hash # vchain[tam.index].hash
        /\ \A i \in 2..tam.index :
              /\ vchain[i].hash = calculate_hash(vchain[i])
              /\ vchain[i].previous_hash = vchain[i - 1].hash

\* previous_hash of the block at index 2 was replaced and validation ran
C8_Witness ==
    /\ Tampered({"previous_hash"})
    /\ tam.index = 2
    /\ ~verdict.ok

\* C9: a call with num_threads <= 0 or difficulty < 0 starts no worker,
\* commits nothing, leaves the chain alone and ends in an error.
C9_ConfigurationRejected ==
    (outcome # "new" /\ (num_threads <= 0 \/ difficulty < 0)) =>
        /\ started = 0
        /\ result = None
        /\ Len(chain) = lenBefore
        /\ opc = "idle" => outcome = "error"

\* C10: validation returns true exactly when every block after the first is
\* self-consistent and linked to its predecessor; sequences of length 0 or 1
\* are valid whatever the first block holds.
C10_ValidationAlgorithm ==
    verdict # NoVerdict =>
        /\ verdict.ok <=>
              \A i \in 2..Len(vchain) :
                  /\ vchain[i].hash = calculate_hash(vchain[i])
                  /\ vchain[i].previous_hash = vchain[i - 1].hash
        /\ Len(vchain) <= 1 => verdict.ok

\* the genesis block of a two-block chain is no longer self-consistent and
\* validation returned true
C10_Witness ==
    /\ verdict # NoVerdict
    /\ verdict.ok
    /\ Len(vchain) = 2
    /\ vchain[1].hash # calculate_hash(vchain[1])

InSection(w) == pc[w] \in {"check", "validate", "write", "commitstop", "unlock"}
AfterSearch(w) == pc[w] \in {"lock", "done"} \/ InSection(w)

\* C11: when the caller reaches its last step with the slot empty it returns
\* with the "no block mined" outcome and the chain it started with.
C11_DegenerateOutcome ==
    /\ [][(opc = "finish" /\ result = None) =>
             (opc' = "idle" /\ outcome' = "none" /\ chain' = chain)]_vars
    /\ []((Returned /\ result = None) =>
             (outcome = "none" /\ Len(chain) = lenBefore))

\* a call returned with nothing in the slot
C11_Witness ==
    /\ Returned
    /\ result = None
    /\ outcome = "none"
    /\ \A w \in Workers : w <= started => pc[w] = "done"

\* C12: the block in the result slot was never put there by a worker whose
\* search ended on the cancellation signal.
C12_CancelledNoCandidate ==
    result # None => found[result[1].by]

\* C13: while stop_event is set some worker has found a satisfying hash or
\* has committed a block, and within a call the event is never cleared.
C13_CancellationGenuine ==
    /\ [](stop_event =>
            \E w \in Workers : found[w] \/ arb[w] = "committed")
    /\ [][(stop_event /\ opc # "idle") => stop_event']_vars

\* the event is set and two workers have left their search, one of them
\* without a satisfying hash
C13_Witness ==
    /\ stop_event
    /\ \E w, v \in Workers :
          /\ found[w]
          /\ ~found[v] /\ AfterSearch(v) /\ attempts[v] > 0

\* C14: at most one worker is between the acquire and the release of
\* result_lock, it is the holder of the lock, the slot it saw empty stays
\* empty until it writes it, and the slot is written at most once.
C14_AtomicArbitration ==
    /\ \A w, v \in Workers : (InSection(w) /\ InSection(v)) => w = v
    /\ \A w \in Workers : InSection(w) => result_lock = w
    /\ \A w \in Workers : pc[w] \in {"validate", "write"} => result = None
    /\ writes <= 1

\* one worker has seen the slot empty and the other waits for the lock
C14_Witness ==
    \E w, v \in Workers :
        /\ pc[w] = "write"
        /\ pc[v] = "lock"
        /\ result_lock = w

\* C15 as stated: a worker about to write the result slot or to set
\* stop_event holds result_lock.
C15_BothUnderLock ==
    \A w \in Workers :
        pc[w] \in {"write", "setstop", "commitstop"} => result_lock = w

\* C15 amended: the result slot is written, and stop_event is set at line
\* 189, only by the holder of result_lock; the set of line 66 is made by a
\* worker that has found a satisfying hash and does not hold the lock.
C15_LockDiscipline ==
    /\ [](\A w \in Workers :
            /\ pc[w] \in {"write", "commitstop"} => result_lock = w
            /\ pc[w] = "setstop" => (found[w] /\ result_lock # w))
    /\ [][(opc # "idle" /\ result' # result) =>
             \E w \in Workers : pc[w] = "write" /\ result_lock = w]_vars
    /\ [][(opc # "idle" /\ stopSetBy' # stopSetBy) =>
             \E w \in Workers :
                 \/ pc[w] = "commitstop" /\ result_lock = w
                 \/ pc[w] = "setstop" /\ found[w]]_vars

\* one worker is about to set the event at line 66 while the other one,
\* holding the lock, is about to set it at line 189
C15_Witness ==
    \E w, v \in Workers :
        /\ pc[w] = "setstop"
        /\ pc[v] = "commitstop"
        /\ result_lock = v

\* C16: the chain changes only in the caller's last step, when every started
\* worker is done; from the template on, the chain has the length it had and
\* its tip is the block the template links to.
C16_ChainFrame ==
    /\ [][chain' # chain =>
             /\ opc = "finish"
             /\ started >= num_threads
             /\ \A w \in Workers : w <= started => pc[w] = "done"
             /\ chain' = Append(chain, result[1].block)]_vars
    /\ [](opc \in {"spawn", "join", "finish"} =>
             /\ Len(chain) = lenBefore
             /\ get_latest_block(chain).hash = block_template.previous_hash)

\* two workers went through arbitration and the caller has appended
C16_Witness ==
    /\ Returned
    /\ outcome = "appended"
    /\ num_threads = 2
    /\ \A w \in Workers : pc[w] = "done" /\ arb[w] # "none"
    /\ Len(chain) = lenBefore + 1

\* C17: once stop_event is set, a worker at a loop test starts no further
\* hash attempt and no further search, so the only attempt a worker makes
\* after the set is the one whose loop test it had already passed.
C17_BoundedWastedWork ==
    [][\A w \in Workers :
          (stop_event /\ opc # "idle") =>
              /\ stop_event'
              /\ pc[w] = "inner" => pc'[w] # "attempt"
              /\ pc[w] = "outer" => pc'[w] # "inner"
              /\ attempts'[w] # attempts[w] =>
                    (pc[w] = "attempt" /\ pc'[w] \in {"inner", "setstop"})]_vars

\* the event is set while a worker is past its loop test, about to make its
\* one wasted attempt
C17_Witness ==
    \E w \in Workers :
        /\ stop_event
        /\ pc[w] = "attempt"
        /\ attempts[w] >= 1

\* C18: under fair scheduling, once stop_event is set in a call every started
\* worker ends and the caller returns; a worker waiting for result_lock gets
\* it, and the lock is held only by a worker inside the section.
C18_RaceTermination ==
    /\ (stop_event /\ opc # "idle")
          ~> (/\ Returned
              /\ result_lock = 0
              /\ \A w \in Workers : w <= started => pc[w] = "done")
    /\ [](/\ result_lock # 0 => InSection(result_lock)
          /\ \A w \in Workers : pc[w] = "lock" => stop_event)

\* the event is set while one worker holds the lock and the other waits
C18_Witness ==
    /\ stop_event
    /\ opc # "idle"
    /\ \E w, v \in Workers : pc[w] = "lock" /\ InSection(v) /\ result_lock = v

C20_CommittedShape ==
    /\ result # None =>
          /\ result[1].block.hash = calculate_hash(result[1].block)
          /\ Satisfies(result[1].block) \/ result[1].block.nonce = 0
    /\ \A w \in Workers :
          (~found[w] /\ attempts[w] >= 1 /\ AfterSearch(w)) =>
              /\ block_copy[w].nonce >= 1
              /\ block_copy[w].hash =
                     calculate_hash([block_copy[w] EXCEPT !.nonce = @ - 1])
              /\ block_copy[w].hash # calculate_hash(block_copy[w])
              /\ pc[w] \notin {"write", "commitstop"}
              /\ arb[w] # "committed"
              /\ (pc[w] = "done" => Rejected(w))

\* a worker cancelled after a failed attempt was turned away by validation
\* while the slot was empty, and the slot now holds the finder's block
C20_Witness ==
    /\ result # None
    /\ result[1].block.nonce >= 1
    /\ Satisfies(result[1].block)
    /\ \E w \in Workers : ~found[w] /\ attempts[w] >= 1 /\ arb[w] = "invalid"

====
